---- MODULE Spec2Model ----
(***************************************************************************)
(* The semantic retrieval subsystem of BookBodh: the in-memory chunk store *)
(* (backend/app/database/books.py, class BookDatabase) and the vector      *)
(* index built over it (backend/app/database/embeddings.py, class          *)
(* EmbeddingStore).                                                        *)
(*                                                                         *)
(* Abstractions.  A text is the word range lo..hi-1 of a document `doc`.   *)
(* The sentence encoder is a fixed deterministic function of the text to a *)
(* one-dimensional integer vector; the width the real vectors have is kept *)
(* apart, as the width of the encoder.  A title is a pair <<base, n>>: n = 0 is *)
(* the title as given, n > 0 the n-th title that add_book disambiguated    *)
(* with a random hex suffix.  Positions are 0-based as in Python.          *)
(***************************************************************************)
EXTENDS Integers, Sequences, FiniteSets, TLC

VARIABLES
    seeded,           \* the chunk store was built with the sample books
    books,            \* BookDatabase.books: the set of titles (keys of the dict)
    chunks,           \* BookDatabase.chunks (EmbeddingStore.chunks aliases it)
    cache,            \* books_cache.json on disk
    chunk_ids,        \* EmbeddingStore.chunk_ids
    embeddings,       \* EmbeddingStore.embeddings (rows)
    index,            \* EmbeddingStore.index (the vectors held by the FAISS index)
    book_to_indices,  \* EmbeddingStore.book_to_indices
    dimension,        \* EmbeddingStore.dimension
    model,            \* EmbeddingStore.model: the width of its vectors, and
                      \* whether the encoder can be reached
    exchange,         \* the last POST /chat: the request, the calls the
                      \* handler made, and the status it answered with
    pc,               \* where each thread stands in update_index
    lock,             \* index_lock: "free" or the thread that holds it
    local,            \* the local variables of each thread's update_index
    ingested,         \* history: chunks appended to the store since the last sync
    encodings,        \* history: how often each position of the store was embedded
    last              \* history: the last operation and what it returned

vars == <<seeded, books, chunks, cache, chunk_ids, embeddings, index,
          book_to_indices, dimension, model, exchange, pc, lock, local, ingested,
          encodings, last>>

-----------------------------------------------------------------------------
(* Bounds of the model *)

\* chunks appended to the store beyond the seed
MaxAdded == 3
\* books added beyond the seed
MaxNewBooks == 1
\* a search is called with k in 1..MaxK, or with LargeK, which is more than
\* the store holds
MaxK == 2
LargeK == 10

-----------------------------------------------------------------------------
(* Program constants *)

default_chunk_size == 300
chunk_size == 300
overlap == 50
\* the dimension of an index built over no chunks
default_dimension == 384
\* the width of the vectors of settings.EMBEDDING_MODEL, all-MiniLM-L6-v2
EMBEDDING_MODEL_width == 384

\* the vectors of the encoder are the integers 0..EmbedRange-1
EmbedRange == 7

-----------------------------------------------------------------------------
(* Values *)

Title(base) == <<base, 0>>
NoTitle == Title("")

\* BookDatabase.__init__: the three sample books, with the word counts of
\* their whitespace-normalised contents
SampleBooks ==
    << [title |-> Title("The Alchemist"), doc |-> "alchemist", words |-> 314],
       [title |-> Title("Man's Search for Meaning"), doc |-> "frankl", words |-> 321],
       [title |-> Title("Meditations"), doc |-> "meditations", words |-> 414] >>

Text(doc, lo, hi) == [doc |-> doc, lo |-> lo, hi |-> hi]

\* a book id made by uuid.uuid4() for the book that is stored under the title:
\* different books get different ids
uuid4(title) == <<"uuid4", title>>

\* the id a book has with the producer of books_cache.json and with the
\* callers of add_chunk
ExternalId(title) == <<"external", title>>

Chunk(id, book_id, title, text) ==
    [id |-> id, book_id |-> book_id, title |-> title, text |-> text]

Min(a, b) == IF a <= b THEN a ELSE b

\* words[i:i+size] for i in range(0, n, step), as word ranges
Slices(doc, n, size, step) ==
    [j \in 1 .. ((n + step - 1) \div step) |->
        Text(doc, (j - 1) * step, Min((j - 1) * step + size, n))]

\* SentenceTransformer.encode for one text
Encode(t) == (t.lo + 2 * t.hi + (IF t.doc \in {"frankl", "x"} THEN 1 ELSE 0)) % EmbedRange

EncodeAll(texts) == [i \in 1 .. Len(texts) |-> Encode(texts[i])]

ChunkIdsOf(cs) == [i \in 1 .. Len(cs) |-> cs[i].id]

TextsOf(cs) == [i \in 1 .. Len(cs) |-> cs[i].text]

-----------------------------------------------------------------------------
(* BookDatabase *)

\* _process_books: every book is cut into chunks of chunk_size words, the
\* ids count up from 0 over all books
RECURSIVE process_books(_, _)
process_books(bs, acc) ==
    IF bs = <<>> THEN acc
    ELSE LET b == Head(bs)
             sl == Slices(b.doc, b.words, default_chunk_size, default_chunk_size)
             new == [j \in 1 .. Len(sl) |-> Chunk(Len(acc) + j - 1, uuid4(b.title), b.title, sl[j])]
         IN process_books(Tail(bs), acc \o new)

\* the chunk loop of _load_external_books
RECURSIVE load_chunks(_, _, _)
load_chunks(cs, file, force_reload) ==
    IF file = <<>> THEN cs
    ELSE LET c == Head(file)
             present == \E i \in 1 .. Len(cs) : cs[i].id = c.id
         IN IF ~force_reload /\ present
            THEN load_chunks(cs, Tail(file), force_reload)
            ELSE load_chunks(Append(cs, c), Tail(file), force_reload)

\* _load_external_books on the database db = [books, chunks] and the file
load_external_books(db, file, force_reload) ==
    IF ~file.exists THEN db
    ELSE [books |-> db.books \cup file.books,
          chunks |-> load_chunks(db.chunks, file.chunks, force_reload)]

\* _save_external_books: the file holds the books and the chunks (the disk
\* is taken to accept the write)
save_external_books(db) ==
    [exists |-> TRUE, books |-> db.books, chunks |-> db.chunks]

\* the title add_book stores the book under
RECURSIVE FreshTitle(_, _, _)
FreshTitle(bs, base, n) ==
    IF <<base, n>> \in bs THEN FreshTitle(bs, base, n + 1) ELSE <<base, n>>

\* add_book: the database after the call
add_book(db, title, content) ==
    LET t == IF title \in db.books THEN FreshTitle(db.books, title[1], 1) ELSE title
        sl == Slices(content.doc, content.words, chunk_size, chunk_size - overlap)
        chunk_id == Len(db.chunks)
        book_id == uuid4(t)
        new == [j \in 1 .. Len(sl) |-> Chunk(chunk_id + j - 1, book_id, t, sl[j])]
    IN [books |-> db.books \cup {t}, chunks |-> db.chunks \o new]

\* add_chunk: the database after the call; the id returned is Len(db.chunks)
add_chunk(db, book_id, title, text) ==
    [books |-> db.books,
     chunks |-> Append(db.chunks, Chunk(Len(db.chunks), book_id, title, text))]

\* get_chunk: the first chunk with the id, or the empty sequence (None)
get_chunk(cs, chunk_id) ==
    IF \E i \in 1 .. Len(cs) : cs[i].id = chunk_id
    THEN <<cs[CHOOSE i \in 1 .. Len(cs) :
                 cs[i].id = chunk_id /\ \A j \in 1 .. i - 1 : cs[j].id # chunk_id]>>
    ELSE <<>>

\* the id the store has for the book under the title, in self.books[title]:
\* the sample books are stored without one, _load_external_books stores the
\* id of the file, add_book a new uuid
NoBookId == <<"None", NoTitle>>
ExternalTitles == {Title("Deep Work")}
book_id_of(title) ==
    IF title \in {SampleBooks[i].title : i \in 1 .. Len(SampleBooks)} THEN NoBookId
    ELSE IF title \in ExternalTitles THEN ExternalId(title)
    ELSE uuid4(title)

\* get_all_chunks
get_all_chunks(cs) == cs

\* get_chunks_by_book
get_chunks_by_book(cs, book_title) == SelectSeq(cs, LAMBDA c : c.title = book_title)

\* get_chunks_by_book_id without the reload
get_chunks_by_book_id_scan(db, file, book_id) ==
    [books |-> db.books, chunks |-> db.chunks,
     value |-> SelectSeq(db.chunks, LAMBDA c : c.book_id = book_id)]

\* get_chunks_by_book_id: the chunks with the book id; when there is none,
\* _load_external_books() is called and the scan is repeated.  The database
\* after the call comes with the value.
get_chunks_by_book_id(db, file, book_id) ==
    LET found == SelectSeq(db.chunks, LAMBDA c : c.book_id = book_id)
        after == load_external_books(db, file, FALSE)
    IN IF found # <<>>
       THEN [books |-> db.books, chunks |-> db.chunks, value |-> found]
       ELSE [books |-> after.books, chunks |-> after.chunks,
             value |-> SelectSeq(after.chunks, LAMBDA c : c.book_id = book_id)]

\* get_book: the title of the first book with the id, or the empty sequence
get_book(bs, book_id) ==
    IF book_id # NoBookId /\ \E t \in bs : book_id_of(t) = book_id
    THEN <<CHOOSE t \in bs : book_id_of(t) = book_id>>
    ELSE <<>>

-----------------------------------------------------------------------------
(* EmbeddingStore *)

\* the book title to positions mapping built over the chunk list
BuildBookToIndices(cs) ==
    [t \in {cs[i].title : i \in 1 .. Len(cs)} |->
        SelectSeq([i \in 1 .. Len(cs) |-> i - 1], LAMBDA p : cs[p + 1].title = t)]

\* EmbeddingStore.__init__ with an encoder that another default dimension
\* was written for
EmbeddingStoreInit_other_default(cs, width) ==
    [chunk_ids |-> ChunkIdsOf(cs),
     embeddings |-> EncodeAll(TextsOf(cs)),
     index |-> EncodeAll(TextsOf(cs)),
     book_to_indices |-> BuildBookToIndices(cs),
     dimension |-> IF TextsOf(cs) # <<>> THEN width ELSE 2 * default_dimension]

\* EmbeddingStore.__init__ with an encoder of the width
EmbeddingStoreInit(cs, width) ==
    [chunk_ids |-> ChunkIdsOf(cs),
     embeddings |-> EncodeAll(TextsOf(cs)),
     index |-> EncodeAll(TextsOf(cs)),
     book_to_indices |-> BuildBookToIndices(cs),
     dimension |-> IF TextsOf(cs) # <<>> THEN width ELSE default_dimension]

\* update_index, lines 77-83: the ids of the store that chunk_ids lacks
ids_to_add(store, cs) ==
    LET new_chunk_ids == ChunkIdsOf(cs)
        current_ids == {store.chunk_ids[i] : i \in 1 .. Len(store.chunk_ids)}
        new_ids == {new_chunk_ids[i] : i \in 1 .. Len(new_chunk_ids)}
    IN new_ids \ current_ids

\* update_index, lines 90-95: the texts of the chunks with these ids
new_texts(store, cs) ==
    TextsOf(SelectSeq(cs, LAMBDA c : c.id \in ids_to_add(store, cs)))

\* update_index with line 107 left out: chunk_ids keeps its old value
update_index_keeps_chunk_ids(store, cs) ==
    LET new_embeddings == EncodeAll(new_texts(store, cs))
    IN IF ids_to_add(store, cs) = {}
       THEN [chunk_ids |-> store.chunk_ids, embeddings |-> store.embeddings,
             index |-> store.index, book_to_indices |-> store.book_to_indices,
             encoded |-> 0]
       ELSE [chunk_ids |-> store.chunk_ids,
             embeddings |-> store.embeddings \o new_embeddings,
             index |-> store.index \o new_embeddings,
             book_to_indices |-> BuildBookToIndices(cs),
             encoded |-> Len(new_texts(store, cs))]

\* update_index that puts the new rows in front of the old ones
update_index_prepends(store, cs) ==
    LET new_chunk_ids == ChunkIdsOf(cs)
        new_embeddings == EncodeAll(new_texts(store, cs))
    IN IF ids_to_add(store, cs) = {}
       THEN [chunk_ids |-> store.chunk_ids, embeddings |-> store.embeddings,
             index |-> store.index, book_to_indices |-> store.book_to_indices,
             encoded |-> 0]
       ELSE [chunk_ids |-> new_chunk_ids,
             embeddings |-> new_embeddings \o store.embeddings,
             index |-> new_embeddings \o store.index,
             book_to_indices |-> BuildBookToIndices(cs),
             encoded |-> Len(new_texts(store, cs))]

\* update_index: the store after the call, and the number of texts the call
\* handed to the encoder
update_index(store, cs) ==
    LET new_chunk_ids == ChunkIdsOf(cs)
        new_embeddings == EncodeAll(new_texts(store, cs))
    IN IF ids_to_add(store, cs) = {}
       THEN [chunk_ids |-> store.chunk_ids, embeddings |-> store.embeddings,
             index |-> store.index, book_to_indices |-> store.book_to_indices,
             encoded |-> 0]
       ELSE [chunk_ids |-> new_chunk_ids,
             embeddings |-> store.embeddings \o new_embeddings,
             index |-> store.index \o new_embeddings,
             book_to_indices |-> BuildBookToIndices(cs),
             encoded |-> Len(new_texts(store, cs))]

\* squared Euclidean distance of two vectors
L2(a, b) == (a - b) * (a - b)

\* the distance faiss reports with the label -1 where it has no vector left
FLT_MAX == EmbedRange * EmbedRange

\* an index search that returns the vectors in the order of their labels
IndexFlatL2_search_by_label(vectors, left, q, k) ==
    [j \in 1 .. k |-> IF j <= Len(vectors) THEN <<j - 1, L2(vectors[j], q)>>
                                          ELSE <<-1, FLT_MAX>>]

\* faiss.IndexFlatL2.search for one query over the vectors with the labels in
\* `left`: k <<label, distance>> pairs, the nearest vectors first (the lower
\* label first among equals), padded with the label -1 when there are fewer
\* than k vectors.  A vector is ranked by the key distance * (n + 1) + label.
IndexFlatL2_search(vectors, left, q, k) ==
    LET n == Len(vectors)
        keys == SortSeq(SelectSeq([i \in 1 .. n |-> L2(vectors[i], q) * (n + 1) + (i - 1)],
                                  LAMBDA key : (key % (n + 1)) \in left),
                        LAMBDA a, b : a < b)
    IN [j \in 1 .. k |-> IF j <= Len(keys)
                         THEN <<keys[j] % (n + 1), keys[j] \div (n + 1)>>
                         ELSE <<-1, FLT_MAX>>]

Positions(vectors) == {i - 1 : i \in 1 .. Len(vectors)}

\* Python's seq[i]: negative i counts from the end; out of range raises
PyInRange(seq, i) == (0 <= i /\ i < Len(seq)) \/ (i < 0 /\ -i <= Len(seq))
PyGet(seq, i) == IF i >= 0 THEN seq[i + 1] ELSE seq[Len(seq) + i + 1]

Raised == [ok |-> FALSE, results |-> <<>>]
Returned(rs) == [ok |-> TRUE, results |-> rs]

\* the branch of search taken with a filter that is a key of the mapping
search_book(store, q, k, filter_book) ==
    LET book_indices == store.book_to_indices[filter_book]
    IN IF \E j \in 1 .. Len(book_indices) : ~PyInRange(store.embeddings, book_indices[j])
       THEN Raised
       ELSE LET book_embeddings == [j \in 1 .. Len(book_indices) |->
                                       PyGet(store.embeddings, book_indices[j])]
                found == IndexFlatL2_search(book_embeddings, Positions(book_embeddings),
                                            q, Min(k, Len(book_indices)))
            IN IF \E j \in 1 .. Len(found) :
                     \/ ~PyInRange(book_indices, found[j][1])
                     \/ ~PyInRange(store.chunk_ids, PyGet(book_indices, found[j][1]))
               THEN Raised
               ELSE Returned([j \in 1 .. Len(found) |->
                        <<PyGet(store.chunk_ids, PyGet(book_indices, found[j][1])),
                          found[j][2]>>])

\* the branch of search across all books
search_all(store, q, k) ==
    LET found == IndexFlatL2_search(store.index, Positions(store.index), q, k)
    IN IF \E j \in 1 .. Len(found) : ~PyInRange(store.chunk_ids, found[j][1])
       THEN Raised
       ELSE Returned([j \in 1 .. Len(found) |->
                        <<PyGet(store.chunk_ids, found[j][1]), found[j][2]>>])

\* EmbeddingStore.search
search(store, query, k, filter_book) ==
    IF filter_book # NoTitle /\ filter_book \in DOMAIN store.book_to_indices
    THEN search_book(store, Encode(query), k, filter_book)
    ELSE search_all(store, Encode(query), k)

\* what a call of update_index leaves and reports: the fields of the store s,
\* the number of texts encoded, whether the call returned, whether the
\* encoder raised, whether the index refused the vectors for their width
Outcome(s, encoded, ok, encoder_raised, mismatch) ==
    [chunk_ids |-> s.chunk_ids, embeddings |-> s.embeddings, index |-> s.index,
     book_to_indices |-> s.book_to_indices, encoded |-> encoded, ok |-> ok,
     encoder_raised |-> encoder_raised, mismatch |-> mismatch]

\* update_index that assigns chunk_ids before it adds to the index
update_index_call_ids_first(m, dim, store, cs) ==
    LET after == update_index(store, cs)
    IN IF ids_to_add(store, cs) = {} THEN Outcome(store, 0, TRUE, FALSE, FALSE)
       ELSE IF ~m.up THEN Outcome(store, 0, FALSE, TRUE, FALSE)
       ELSE IF m.width # dim
            THEN Outcome([store EXCEPT !.chunk_ids = after.chunk_ids],
                         after.encoded, FALSE, FALSE, TRUE)
       ELSE Outcome(after, after.encoded, TRUE, FALSE, FALSE)

\* update_index called with the encoder m on a store whose index has the
\* dimension dim.  With nothing to add it returns before the encoder is used;
\* self.model.encode raises when the encoder cannot be reached; index.add
\* raises when the width of the vectors is not the dimension of the index.
\* Both exceptions leave update_index before anything is assigned.
update_index_call(m, dim, store, cs) ==
    LET after == update_index(store, cs)
    IN IF ids_to_add(store, cs) = {} THEN Outcome(store, 0, TRUE, FALSE, FALSE)
       ELSE IF ~m.up THEN Outcome(store, 0, FALSE, TRUE, FALSE)
       ELSE IF m.width # dim THEN Outcome(store, after.encoded, FALSE, FALSE, TRUE)
       ELSE Outcome(after, after.encoded, TRUE, FALSE, FALSE)

\* search that answers an encoder failure with an empty list
search_call_returns_empty(m, dim, store, query, k, filter_book) ==
    IF ~m.up THEN Returned(<<>>)
    ELSE IF m.width # dim THEN Raised
    ELSE search(store, query, k, filter_book)

\* search called with the encoder m: self.model.encode raises when the
\* encoder cannot be reached, and the index search raises when the width of
\* the query vector is not the dimension of the index
search_call(m, dim, store, query, k, filter_book) ==
    IF ~m.up THEN Raised
    ELSE IF m.width # dim THEN Raised
    ELSE search(store, query, k, filter_book)

-----------------------------------------------------------------------------
(* POST /chat *)

\* Python's None, for an optional field of ChatRequest that was not sent
None == "None"

\* a list of chunks is written as a string, [] being the empty one
EmptyList == "[]"

\* Python's `not v` for the optional fields: None, "" and [] count as absent
Absent(v) == v \in {None, "", EmptyList}

\* what a call made by the handler can do: raise, or return a value
Raises == [raised |-> TRUE, value |-> None]
Returns(v) == [raised |-> FALSE, value |-> v]

\* a list of chunks one of which has a text that is no string
Malformed == "[malformed chunk]"

\* generate_response that lets a failure of the Groq API reach its caller
generate_response_raising(query, context, groq) ==
    IF context = Malformed \/ groq = "fails" THEN Raises
    ELSE IF groq = "cites" /\ context # EmptyList THEN Returns("The Alchemist")
    ELSE Returns(None)

\* generate_response: the book of the dictionary it returns (the author goes
\* with the book).  The context is built before the try block, where
\* sanitize_html raises on a text that is no string (line 91); with no chunks
\* the loop does nothing.  Every failure of the call of the Groq API is
\* answered inside the function with a dictionary whose book is None (lines
\* 141-148, 179-205), and the book is one of the context's when the answer
\* names it (lines 167-171).
generate_response(query, context, groq) ==
    IF context = Malformed THEN Raises
    ELSE IF groq = "cites" /\ context # EmptyList THEN Returns("The Alchemist")
    ELSE Returns(None)

\* the handler of POST /chat, given what retrieve_chunks does when it is
\* called and what the Groq API does: the request, the argument lists of the
\* calls it made in their order, the chunks it had for the context, the status
\* of the answer and the book of its body (the author goes with the book).
\* Any exception ends in the except clause, which answers 500.
chat(request, retrieved, groq) ==
    IF Absent(request.book) /\ Absent(request.bookId) /\ Absent(request.chunks)
    THEN \* general chat: generate_response(query, []) and nothing else
         [request |-> request, retrieve_chunks |-> <<>>,
          chunks |-> Returns(EmptyList),
          generate_response |-> <<<<request.query, EmptyList>>>>,
          status_code |-> IF generate_response(request.query, EmptyList, groq).raised
                          THEN 500 ELSE 200,
          book |-> None]
    ELSE LET calls == IF Absent(request.chunks)
                      THEN <<<<request.query, request.book, request.bookId>>>>
                      ELSE <<>>
             found == IF Absent(request.chunks) THEN retrieved
                      ELSE Returns(request.chunks)
             context == IF Absent(found.value) THEN EmptyList ELSE found.value
             generated == generate_response(request.query, context, groq)
         IN IF found.raised
            THEN [request |-> request, retrieve_chunks |-> calls, chunks |-> found,
                  generate_response |-> <<>>, status_code |-> 500, book |-> None]
            ELSE [request |-> request, retrieve_chunks |-> calls, chunks |-> found,
                  generate_response |-> <<<<request.query, context>>>>,
                  status_code |-> IF generated.raised THEN 500 ELSE 200,
                  book |-> IF generated.raised \/ Absent(found.value)
                           THEN None ELSE generated.value]

\* no request has been served yet
NoExchange ==
    [request |-> [query |-> "", book |-> None, bookId |-> None, chunks |-> None],
     retrieve_chunks |-> <<>>, chunks |-> Returns(None),
     generate_response |-> <<>>, status_code |-> 0, book |-> None]

-----------------------------------------------------------------------------
(* retrieve_chunks *)

\* the dictionaries retrieve_chunks makes of chunks of the store (the author
\* goes with the title)
Scored(cs) ==
    [i \in 1 .. Len(cs) |-> [text |-> cs[i].text, title |-> cs[i].title, score |-> "1.0"]]

\* what retrieve_chunks returns and leaves: the list, the database and the
\* cache file after the call, the steps it went through in their order, and
\* the calls of embedding_store.search it made (the function has none)
Retrieved(value, db, file, steps) ==
    [value |-> value, books |-> db.books, chunks |-> db.chunks, cache |-> file,
     steps |-> steps, searches |-> <<>>]

\* lines 68-247: the store has no chunk for the book id.  env tells what the
\* Selenium/OCR extraction does, what book_<id>.json holds and whether the
\* book was stored with a text.
retrieve_fallbacks(db, file, book_id, env) ==
    LET book_data == get_book(db.books, book_id)
        extracting == book_data # <<>>
        extracted == extracting /\ env.extraction = "text"
        added == IF extracted
                 THEN add_chunk(db, book_id, book_data[1], Text("ocr", 0, 10))
                 ELSE db
        file1 == IF extracted THEN save_external_books(added) ELSE file
        second == IF extracting /\ env.extraction \in {"text", "blank"}
                  THEN get_chunks_by_book_id(added, file1, book_id)
                  ELSE [books |-> added.books, chunks |-> added.chunks, value |-> <<>>]
        steps1 == <<"get_chunks_by_book_id">>
                  \o (IF extracting THEN <<"extract_from_google_books">> ELSE <<>>)
        reloaded == load_external_books(second, file1, FALSE)
        third == get_chunks_by_book_id(reloaded, file1, book_id)
        steps2 == steps1 \o <<"_load_external_books">>
        steps3 == steps2 \o <<"book cache file">>
        steps4 == steps3 \o <<"dynamic chunks">>
        again == get_book(third.books, book_id)
    IN IF second.value # <<>> THEN Retrieved(Scored(second.value), second, file1, steps1)
       ELSE IF third.value # <<>> THEN Retrieved(Scored(third.value), third, file1, steps2)
       ELSE IF env.book_cache = "chunks"
            THEN Retrieved(<<[text |-> Text("book cache", 0, 10),
                              title |-> Title("book cache"), score |-> "1.0"]>>,
                           third, file1, steps3)
       ELSE IF again # <<>> /\ env.content = "text"
            THEN Retrieved(<<[text |-> Text("content", 0, 10),
                              title |-> again[1], part |-> 1, score |-> "1.0"]>>,
                           third, file1, steps4)
       ELSE Retrieved(<<>>, third, file1, steps4)

\* retrieve_chunks that starts the extraction whatever the store holds
retrieve_chunks_extracts_first(db, file, query, book, book_id, env) ==
    IF book_id = NoBookId THEN Retrieved(<<>>, db, file, <<>>)
    ELSE retrieve_fallbacks(db, file, book_id, env)

\* retrieve_chunks(query, book, book_id)
retrieve_chunks(db, file, query, book, book_id, env) ==
    IF book_id = NoBookId THEN Retrieved(<<>>, db, file, <<>>)
    ELSE LET first == get_chunks_by_book_id(db, file, book_id)
         IN IF first.value # <<>>
            THEN Retrieved(Scored(first.value), first, file, <<"get_chunks_by_book_id">>)
            ELSE retrieve_fallbacks(first, file, book_id, env)

-----------------------------------------------------------------------------
(* The state as records *)

book_db == [books |-> books, chunks |-> chunks]

embedding_store == [chunk_ids |-> chunk_ids, embeddings |-> embeddings, index |-> index,
       book_to_indices |-> book_to_indices]

SeedBooks == IF seeded THEN SampleBooks ELSE <<>>

SeedLen == Len(process_books(SeedBooks, <<>>))

SampleTitles == {SampleBooks[i].title : i \in 1 .. Len(SampleBooks)}

-----------------------------------------------------------------------------
(* Inputs *)

\* books_cache.json as found at start-up: absent, or written by another
\* producer with one chunk that carries its own id
ExternalIds == {7}

ExternalCaches ==
    {[exists |-> FALSE, books |-> {}, chunks |-> <<>>]}
    \cup {[exists |-> TRUE, books |-> {Title("Deep Work")},
           chunks |-> <<Chunk(i, ExternalId(Title("Deep Work")), Title("Deep Work"),
                             Text("deepwork", 0, 40))>>]
          : i \in ExternalIds}

BookTitles == {Title("Meditations"), Title("Atomic Habits")}

Contents == {[doc |-> "upload", words |-> 0], [doc |-> "upload", words |-> 301]}

\* the (book_id, title, text) triples add_chunk is called with
ChunkInputs ==
    {[book_id |-> ExternalId(Title("Meditations")), title |-> Title("Meditations"),
      text |-> Text("x", 0, 10)],
     [book_id |-> ExternalId(Title("Atomic Habits")), title |-> Title("Atomic Habits"),
      text |-> Text("y", 0, 20)]}

Queries == {Text("q", 0, 3)}

Ks == (1 .. MaxK) \cup {LargeK}

Filters == {NoTitle, Title("Meditations"), Title("Atomic Habits"), Title("nonexistent")}

NewBooks == books \ (SampleTitles \cup {Title("Deep Work")})

-----------------------------------------------------------------------------
(* Operations, each run to completion by one caller *)

dbVars == <<seeded, books, chunks, cache>>
indexVars == <<chunk_ids, embeddings, index, book_to_indices>>
threadVars == <<pc, lock, local>>

\* the threads that run update_index concurrently
Threads == {"t1", "t2"}

\* the 0-based positions of the chunks update_index hands to the encoder
PositionsToAdd(store, cs) ==
    {i - 1 : i \in {j \in 1 .. Len(cs) : cs[j].id \in ids_to_add(store, cs)}}

\* the encodings counted per position of the store
Count(f, p) == IF p \in DOMAIN f THEN f[p] ELSE 0
Counted(f, ps) ==
    [p \in DOMAIN f \cup ps |-> Count(f, p) + (IF p \in ps THEN 1 ELSE 0)]

\* BookDatabase() followed by EmbeddingStore(book_db), with the encoder m.  The
\* chunk store the EmbeddingStore is given starts from the three sample books,
\* or from no book at all (the case EmbeddingStore.__init__ handles in its
\* else branch).
Construct(m) ==
    /\ seeded \in BOOLEAN
    /\ cache \in ExternalCaches
    /\ LET seed == [books |-> {SeedBooks[i].title : i \in 1 .. Len(SeedBooks)},
                    chunks |-> process_books(SeedBooks, <<>>)]
           loaded == load_external_books(seed, cache, FALSE)
           built == EmbeddingStoreInit(loaded.chunks, m.width)
       IN /\ books = loaded.books
          /\ chunks = loaded.chunks
          /\ chunk_ids = built.chunk_ids
          /\ embeddings = built.embeddings
          /\ index = built.index
          /\ book_to_indices = built.book_to_indices
          /\ dimension = built.dimension
          /\ encodings = [p \in {i - 1 : i \in 1 .. Len(loaded.chunks)} |-> 1]
          /\ local = [t \in Threads |->
                        [new_chunk_ids |-> <<>>, new_texts |-> <<>>,
                         new_embeddings |-> <<>>, positions |-> {},
                         found |-> <<>>]]
    /\ ingested = 0
    /\ last = [op |-> "init"]
    /\ pc = [t \in Threads |-> "idle"]
    /\ lock = "free"
    /\ model = m
    /\ exchange = NoExchange

\* the encoder is the one of settings.EMBEDDING_MODEL, and it can be reached
Init == Construct([width |-> EMBEDDING_MODEL_width, up |-> TRUE])

Fits(cs) == Len(cs) - SeedLen <= MaxAdded

\* the last operation was a run of update_index
JustSynced == last.op \in {"update_index", "process_book"}

\* the fields of the store in what update_index returns
Installed(after) ==
    [chunk_ids |-> after.chunk_ids, embeddings |-> after.embeddings,
     index |-> after.index, book_to_indices |-> after.book_to_indices]

\* the caller has taken the result of its last search
Idle == last.op # "search"

AddChunk ==
    \E c \in ChunkInputs :
        LET after == add_chunk(book_db, c.book_id, c.title, c.text)
        IN /\ Idle
           /\ Fits(after.chunks)
           /\ chunks' = after.chunks
           /\ books' = after.books
           /\ cache' = save_external_books(after)
           /\ ingested' = ingested + 1
           /\ last' = [op |-> "add_chunk", id |-> Len(chunks)]
           /\ UNCHANGED <<exchange, seeded, dimension, model, indexVars, threadVars, encodings>>

AddBook ==
    \E title \in BookTitles, content \in Contents :
        LET after == add_book(book_db, title, content)
        IN /\ Idle
           /\ Fits(after.chunks)
           /\ Cardinality(NewBooks) < MaxNewBooks
           /\ chunks' = after.chunks
           /\ books' = after.books
           /\ cache' = save_external_books(after)
           /\ ingested' = ingested + (Len(after.chunks) - Len(chunks))
           /\ last' = [op |-> "add_book"]
           /\ UNCHANGED <<exchange, seeded, dimension, model, indexVars, threadVars, encodings>>

LoadExternalBooks ==
    \E force_reload \in BOOLEAN :
        LET after == load_external_books(book_db, cache, force_reload)
        IN /\ Idle
           /\ Fits(after.chunks)
           /\ chunks' = after.chunks
           /\ books' = after.books
           /\ ingested' = ingested + (Len(after.chunks) - Len(chunks))
           /\ last' = [op |-> "load_external_books"]
           /\ UNCHANGED <<exchange, seeded, dimension, model, cache, indexVars, threadVars, encodings>>

UpdateIndex ==
    LET after == update_index_call(model, dimension, embedding_store, chunks)
    IN /\ Idle
       /\ lock = "free"
       /\ chunk_ids' = after.chunk_ids
       /\ embeddings' = after.embeddings
       /\ index' = after.index
       /\ book_to_indices' = after.book_to_indices
       /\ encodings' = IF ~after.ok THEN encodings
                       ELSE Counted(encodings, PositionsToAdd(embedding_store, chunks))
       /\ ingested' = IF after.ok THEN 0 ELSE ingested
       /\ last' = [op |-> "update_index", encoded |-> after.encoded,
                   pending |-> ingested, repeated |-> JustSynced,
                   first_encoded |-> IF JustSynced THEN last.encoded ELSE 0,
                   changed |-> Installed(after) # embedding_store,
                   ok |-> after.ok, encoder_raised |-> after.encoder_raised,
                   mismatch |-> after.mismatch]
       /\ UNCHANGED <<exchange, dbVars, dimension, model, threadVars>>

\* process_book: add_book, then update_index; an exception of either is
\* caught and the caller gets False
ProcessBook ==
    \E title \in BookTitles, content \in Contents :
        LET added == add_book(book_db, title, content)
            after == update_index_call(model, dimension, embedding_store, added.chunks)
        IN /\ Idle
           /\ lock = "free"
           /\ Fits(added.chunks)
           /\ Cardinality(NewBooks) < MaxNewBooks
           /\ chunks' = added.chunks
           /\ books' = added.books
           /\ cache' = save_external_books(added)
           /\ chunk_ids' = after.chunk_ids
           /\ embeddings' = after.embeddings
           /\ index' = after.index
           /\ book_to_indices' = after.book_to_indices
           /\ encodings' = IF ~after.ok THEN encodings
                           ELSE Counted(encodings,
                                        PositionsToAdd(embedding_store, added.chunks))
           /\ ingested' = IF after.ok THEN 0
                          ELSE ingested + (Len(added.chunks) - Len(chunks))
           /\ last' = [op |-> "process_book", encoded |-> after.encoded,
                       pending |-> ingested + (Len(added.chunks) - Len(chunks)),
                       repeated |-> FALSE, first_encoded |-> 0,
                       changed |-> Installed(after) # embedding_store,
                       ok |-> after.ok, encoder_raised |-> after.encoder_raised,
                       mismatch |-> after.mismatch]
           /\ UNCHANGED <<exchange, seeded, dimension, model, threadVars>>

Search ==
    \E query \in Queries, k \in Ks, filter_book \in Filters :
        LET r == search_call(model, dimension, embedding_store, query, k, filter_book)
        IN /\ Idle
           /\ lock = "free"
           /\ last' = [op |-> "search", query |-> query, k |-> k,
                       filter_book |-> filter_book, ok |-> r.ok,
                       results |-> r.results, encoder_raised |-> ~model.up]
           /\ UNCHANGED <<exchange, dbVars, dimension, model, indexVars, threadVars, ingested, encodings>>

\* The caller takes the results of its search.  A search changes nothing but
\* `last`, so what can follow it is what can follow the state it ran in.
SearchReturn ==
    /\ last.op = "search"
    /\ last' = [op |-> "returned"]
    /\ UNCHANGED <<exchange, dbVars, dimension, model, indexVars, threadVars, ingested, encodings>>

Next ==
    \/ AddChunk
    \/ AddBook
    \/ LoadExternalBooks
    \/ UpdateIndex
    \/ ProcessBook
    \/ Search
    \/ SearchReturn

Spec == Init /\ [][Next]_vars

-----------------------------------------------------------------------------
(* Requests to POST /chat *)

\* the bodies a client can post: query is required, the other fields are
\* optional, and chunks may be sent as an empty list
ChatRequests ==
    [query : {"What is happiness?", "What is courage?"},
     book : {None, "The Alchemist"},
     bookId : {None, "b1"},
     chunks : {None, EmptyList, "[client chunk]", Malformed}]

\* retrieve_chunks raises, finds nothing ([]), or finds chunks
RetrieveOutcomes ==
    {Raises, Returns(EmptyList), Returns("[retrieved chunk]")}

\* the Groq API answers and names a book of the context, answers without
\* naming one, or fails (a status other than 200, a timeout, no connection)
GroqOutcomes == {"cites", "answers", "fails"}

Chat ==
    \E request \in ChatRequests, retrieved \in RetrieveOutcomes,
       groq \in GroqOutcomes :
        /\ exchange' = chat(request, retrieved, groq)
        /\ UNCHANGED <<dbVars, dimension, model, indexVars, threadVars, ingested,
                       encodings, last>>

NextChat == Chat

SpecChat == Init /\ [][NextChat]_vars

-----------------------------------------------------------------------------
(* The same operations on a store that was built over no chunks *)

\* BookDatabase() found no sample books and no books_cache.json, so that
\* EmbeddingStore.__init__ took the branch of lines 66-71
InitEmpty == Init /\ chunks = <<>>

\* chunks are ingested one by one, the index is synchronised and searched
NextEmpty ==
    \/ AddChunk
    \/ UpdateIndex
    \/ Search
    \/ SearchReturn

SpecEmpty == InitEmpty /\ [][NextEmpty]_vars

-----------------------------------------------------------------------------
(* The same operations with an encoder that can fail *)

\* the widths of the encoders the store may be configured with
Widths == {EMBEDDING_MODEL_width, 2 * EMBEDDING_MODEL_width}

\* a store built from chunks takes the width of its encoder, whichever it is
\* (line 56); an encoder of another width than the default is told apart only
\* by a store that was built empty (line 68)
InitFault ==
    \E w \in Widths :
        /\ Construct([width |-> w, up |-> TRUE])
        /\ w = EMBEDDING_MODEL_width \/ index = <<>>

\* the embedding model becomes unreachable: its encode raises
EncoderFails ==
    /\ Idle
    /\ model.up
    /\ model' = [model EXCEPT !.up = FALSE]
    /\ UNCHANGED <<exchange, dbVars, dimension, indexVars, threadVars, ingested, encodings, last>>

EncoderRecovers ==
    /\ Idle
    /\ ~model.up
    /\ model' = [model EXCEPT !.up = TRUE]
    /\ UNCHANGED <<exchange, dbVars, dimension, indexVars, threadVars, ingested, encodings, last>>

NextFault ==
    \/ AddChunk
    \/ UpdateIndex
    \/ ProcessBook
    \/ Search
    \/ SearchReturn
    \/ EncoderFails
    \/ EncoderRecovers

SpecFault == InitFault /\ [][NextFault]_vars

-----------------------------------------------------------------------------
(* update_index run by concurrent threads, step by step *)

\* a request calls update_index and comes to `with index_lock:`
Call(t) ==
    /\ pc[t] = "idle"
    /\ pc' = [pc EXCEPT ![t] = "waiting"]
    /\ UNCHANGED <<exchange, dbVars, dimension, model, indexVars, lock, local, ingested, last, encodings>>

\* update_index without the lock: the thread enters whoever holds it
Acquire_without_lock(t) ==
    /\ pc[t] = "waiting"
    /\ lock' = t
    /\ pc' = [pc EXCEPT ![t] = "diff"]
    /\ UNCHANGED <<exchange, dbVars, dimension, model, indexVars, local, ingested, last, encodings>>

\* `with index_lock:` - the thread enters when the lock is free
Acquire(t) ==
    /\ pc[t] = "waiting"
    /\ lock = "free"
    /\ lock' = t
    /\ pc' = [pc EXCEPT ![t] = "diff"]
    /\ UNCHANGED <<exchange, dbVars, dimension, model, indexVars, local, ingested, last, encodings>>

\* the chunks are read and compared with chunk_ids; with nothing to add the
\* call returns, which releases the lock
Diff(t) ==
    /\ pc[t] = "diff"
    /\ IF ids_to_add(embedding_store, chunks) = {}
       THEN /\ pc' = [pc EXCEPT ![t] = "idle"]
            /\ lock' = "free"
            /\ UNCHANGED local
       ELSE /\ pc' = [pc EXCEPT ![t] = "encode"]
            /\ local' = [local EXCEPT ![t] =
                           [new_chunk_ids |-> ChunkIdsOf(chunks),
                            new_texts |-> new_texts(embedding_store, chunks),
                            new_embeddings |-> <<>>,
                            positions |-> PositionsToAdd(embedding_store, chunks),
                            found |-> embedding_store]]
            /\ UNCHANGED lock
    /\ UNCHANGED <<exchange, dbVars, dimension, model, indexVars, ingested, last, encodings>>

\* self.model.encode(new_texts)
EncodeStep(t) ==
    /\ pc[t] = "encode"
    /\ local' = [local EXCEPT ![t].new_embeddings = EncodeAll(local[t].new_texts)]
    /\ encodings' = Counted(encodings, local[t].positions)
    /\ pc' = [pc EXCEPT ![t] = "install"]
    /\ UNCHANGED <<exchange, dbVars, dimension, model, indexVars, lock, ingested, last>>

\* the index and the instance variables are updated, the mapping is rebuilt
\* over the chunk list as it is now, and the lock is released
Install(t) ==
    /\ pc[t] = "install"
    /\ index' = index \o local[t].new_embeddings
    /\ chunk_ids' = local[t].new_chunk_ids
    /\ embeddings' = embeddings \o local[t].new_embeddings
    /\ book_to_indices' = BuildBookToIndices(chunks)
    /\ lock' = "free"
    /\ pc' = [pc EXCEPT ![t] = "idle"]
    /\ UNCHANGED <<exchange, dbVars, dimension, model, local, ingested, last, encodings>>

NextConc ==
    \/ AddChunk
    \/ \E t \in Threads : Call(t)
    \/ \E t \in Threads : Acquire(t)
    \/ \E t \in Threads : Diff(t)
    \/ \E t \in Threads : EncodeStep(t)
    \/ \E t \in Threads : Install(t)

SpecConc == Init /\ [][NextConc]_vars

-----------------------------------------------------------------------------
(* search run by one thread while another runs update_index, step by step *)

Updaters == {"t1"}
Searchers == {"t2"}

\* the locals of a thread that is in no call
NoLocals == [new_chunk_ids |-> <<>>, new_texts |-> <<>>, new_embeddings |-> <<>>,
             positions |-> {}, found |-> <<>>]

\* self.index.add(new_embeddings)
InstallIndex(t) ==
    /\ pc[t] = "install"
    /\ index' = index \o local[t].new_embeddings
    /\ pc' = [pc EXCEPT ![t] = "install_ids"]
    /\ UNCHANGED <<exchange, dbVars, dimension, model, chunk_ids, embeddings, book_to_indices, lock, local,
                   ingested, last, encodings>>

\* self.chunk_ids = new_chunk_ids
InstallIds(t) ==
    /\ pc[t] = "install_ids"
    /\ chunk_ids' = local[t].new_chunk_ids
    /\ pc' = [pc EXCEPT ![t] = "install_embeddings"]
    /\ UNCHANGED <<exchange, dbVars, dimension, model, index, embeddings, book_to_indices, lock, local,
                   ingested, last, encodings>>

\* self.embeddings = np.vstack([self.embeddings, new_embeddings])
InstallEmbeddings(t) ==
    /\ pc[t] = "install_embeddings"
    /\ embeddings' = embeddings \o local[t].new_embeddings
    /\ pc' = [pc EXCEPT ![t] = "install_map"]
    /\ UNCHANGED <<exchange, dbVars, dimension, model, index, chunk_ids, book_to_indices, lock, local,
                   ingested, last, encodings>>

\* the mapping is rebuilt and the `with` block ends
InstallMap(t) ==
    /\ pc[t] = "install_map"
    /\ book_to_indices' = BuildBookToIndices(chunks)
    /\ lock' = "free"
    /\ local' = [local EXCEPT ![t] = NoLocals]
    /\ pc' = [pc EXCEPT ![t] = "idle"]
    /\ UNCHANGED <<exchange, dbVars, dimension, model, index, chunk_ids, embeddings, ingested, last, encodings>>

\* the thread has written some of the structures of the store and not yet all
MidInstall(t) == pc[t] \in {"install_ids", "install_embeddings", "install_map"}

\* search is called: the query is encoded before the lock is asked for
SearchCall(t) ==
    \E query \in Queries, k \in Ks, filter_book \in Filters :
        /\ pc[t] = "idle"
        /\ local' = [local EXCEPT ![t] =
                       [query |-> query, query_embedding |-> Encode(query), k |-> k,
                        filter_book |-> filter_book,
                        during_install |-> \E u \in Updaters : MidInstall(u),
                        seen |-> <<>>, scan |-> <<>>, result |-> <<>>]]
        /\ pc' = [pc EXCEPT ![t] = "search_waiting"]
        /\ UNCHANGED <<exchange, dbVars, dimension, model, indexVars, lock, ingested, last, encodings>>

\* search without the lock: the thread starts to read whoever holds it
SearchAcquire_without_lock(t) ==
    /\ pc[t] = "search_waiting"
    /\ lock' = t
    /\ local' = [local EXCEPT ![t].seen = embedding_store]
    /\ pc' = [pc EXCEPT ![t] = "search_scan"]
    /\ UNCHANGED <<exchange, dbVars, dimension, model, indexVars, ingested, last, encodings>>

\* `with index_lock:` of search; `seen` keeps the store as it is at this moment
SearchAcquire(t) ==
    /\ pc[t] = "search_waiting"
    /\ lock = "free"
    /\ lock' = t
    /\ local' = [local EXCEPT ![t].seen = embedding_store]
    /\ pc' = [pc EXCEPT ![t] = "search_scan"]
    /\ UNCHANGED <<exchange, dbVars, dimension, model, indexVars, ingested, last, encodings>>

\* what search has after its nearest-neighbour query: the branch it took, the
\* positions of the book (book_indices) and the <<label, distance>> pairs
Scan(store, q, k, filter_book) ==
    IF filter_book # NoTitle /\ filter_book \in DOMAIN store.book_to_indices
    THEN LET book_indices == store.book_to_indices[filter_book]
         IN IF \E j \in 1 .. Len(book_indices) :
                  ~PyInRange(store.embeddings, book_indices[j])
            THEN [ok |-> FALSE, scoped |-> TRUE, book_indices |-> book_indices,
                  found |-> <<>>]
            ELSE LET book_embeddings == [j \in 1 .. Len(book_indices) |->
                                            PyGet(store.embeddings, book_indices[j])]
                 IN [ok |-> TRUE, scoped |-> TRUE, book_indices |-> book_indices,
                     found |-> IndexFlatL2_search(book_embeddings,
                                   Positions(book_embeddings), q,
                                   Min(k, Len(book_indices)))]
    ELSE [ok |-> TRUE, scoped |-> FALSE, book_indices |-> <<>>,
          found |-> IndexFlatL2_search(store.index, Positions(store.index), q, k)]

\* the labels are turned into chunk ids through chunk_ids as it is now
Resolve(ids, scan) ==
    IF ~scan.ok THEN Raised
    ELSE IF scan.scoped
    THEN IF \E j \in 1 .. Len(scan.found) :
               \/ ~PyInRange(scan.book_indices, scan.found[j][1])
               \/ ~PyInRange(ids, PyGet(scan.book_indices, scan.found[j][1]))
         THEN Raised
         ELSE Returned([j \in 1 .. Len(scan.found) |->
                  <<PyGet(ids, PyGet(scan.book_indices, scan.found[j][1])),
                    scan.found[j][2]>>])
    ELSE IF \E j \in 1 .. Len(scan.found) : ~PyInRange(ids, scan.found[j][1])
         THEN Raised
         ELSE Returned([j \in 1 .. Len(scan.found) |->
                  <<PyGet(ids, scan.found[j][1]), scan.found[j][2]>>])

\* the mapping and the embeddings (or the index) are read
SearchScan(t) ==
    /\ pc[t] = "search_scan"
    /\ local' = [local EXCEPT ![t].scan =
                   Scan(embedding_store, local[t].query_embedding, local[t].k,
                        local[t].filter_book)]
    /\ pc' = [pc EXCEPT ![t] = "search_map"]
    /\ UNCHANGED <<exchange, dbVars, dimension, model, indexVars, lock, ingested, last, encodings>>

\* chunk_ids is read, and the `with` block ends by return or by the exception
SearchMap(t) ==
    /\ pc[t] = "search_map"
    /\ local' = [local EXCEPT ![t].result = Resolve(chunk_ids, local[t].scan)]
    /\ lock' = "free"
    /\ pc' = [pc EXCEPT ![t] = "search_done"]
    /\ UNCHANGED <<exchange, dbVars, dimension, model, indexVars, ingested, last, encodings>>

\* the caller has the result
SearchDone(t) ==
    /\ pc[t] = "search_done"
    /\ local' = [local EXCEPT ![t] = NoLocals]
    /\ pc' = [pc EXCEPT ![t] = "idle"]
    /\ UNCHANGED <<exchange, dbVars, dimension, model, indexVars, lock, ingested, last, encodings>>

NextSnap ==
    \/ AddChunk
    \/ \E t \in Updaters : Call(t)
    \/ \E t \in Updaters : Acquire(t)
    \/ \E t \in Updaters : Diff(t)
    \/ \E t \in Updaters : EncodeStep(t)
    \/ \E t \in Updaters : InstallIndex(t)
    \/ \E t \in Updaters : InstallIds(t)
    \/ \E t \in Updaters : InstallEmbeddings(t)
    \/ \E t \in Updaters : InstallMap(t)
    \/ \E t \in Searchers : SearchCall(t)
    \/ \E t \in Searchers : SearchAcquire(t)
    \/ \E t \in Searchers : SearchScan(t)
    \/ \E t \in Searchers : SearchMap(t)
    \/ \E t \in Searchers : SearchDone(t)

SpecSnap == Init /\ [][NextSnap]_vars

-----------------------------------------------------------------------------
(* add_chunk and add_book run by concurrent requests, step by step *)

\* add_chunk, line 224: chunk_id = len(self.chunks)
AddChunkId(t) ==
    \E c \in ChunkInputs :
        /\ pc[t] = "idle"
        /\ Len(chunks) - SeedLen < MaxAdded
        /\ local' = [local EXCEPT ![t] = [chunk_id |-> Len(chunks), book_id |-> c.book_id,
                                          title |-> c.title, texts |-> <<c.text>>]]
        /\ pc' = [pc EXCEPT ![t] = "append"]
        /\ UNCHANGED <<exchange, dbVars, dimension, model, indexVars, lock, ingested,
                       last, encodings>>

\* add_book, lines 162-187: the book is stored under its title and
\* chunk_id = len(self.chunks)
AddBookId(t) ==
    \E title \in BookTitles, content \in Contents :
        LET after == add_book(book_db, title, content)
            new == SubSeq(after.chunks, Len(chunks) + 1, Len(after.chunks))
        IN /\ pc[t] = "idle"
           /\ Fits(after.chunks)
           /\ Cardinality(NewBooks) < MaxNewBooks
           /\ books' = after.books
           /\ local' = [local EXCEPT ![t] =
                          [chunk_id |-> Len(chunks),
                           book_id |-> IF new = <<>> THEN uuid4(title) ELSE new[1].book_id,
                           title |-> IF new = <<>> THEN title ELSE new[1].title,
                           texts |-> TextsOf(new)]]
           /\ pc' = [pc EXCEPT ![t] = "append"]
           /\ UNCHANGED <<exchange, seeded, chunks, cache, dimension, model, indexVars,
                          lock, ingested, last, encodings>>

\* add_chunk, lines 227-240, and add_book, lines 191-205: the chunks are
\* appended with the ids counted from chunk_id, and the cache file is written
AppendChunks(t) ==
    LET new == [j \in 1 .. Len(local[t].texts) |->
                   Chunk(local[t].chunk_id + j - 1, local[t].book_id, local[t].title,
                         local[t].texts[j])]
        after == [books |-> books, chunks |-> chunks \o new]
    IN /\ pc[t] = "append"
       /\ chunks' = after.chunks
       /\ cache' = save_external_books(after)
       /\ ingested' = ingested + Len(new)
       /\ local' = [local EXCEPT ![t] = NoLocals]
       /\ pc' = [pc EXCEPT ![t] = "idle"]
       /\ UNCHANGED <<exchange, seeded, books, dimension, model, indexVars, lock, last,
                      encodings>>

NextIngest ==
    \/ \E t \in Threads : AddChunkId(t)
    \/ \E t \in Threads : AddBookId(t)
    \/ \E t \in Threads : AppendChunks(t)

SpecIngest == Init /\ [][NextIngest]_vars

-----------------------------------------------------------------------------
(* Lookups and retrieve_chunks, with another producer of books_cache.json *)

\* the book ids a request can carry: none, the id of a book of the other
\* producer, the id add_book returned, an id nobody has
BookIdInputs ==
    {NoBookId, ExternalId(Title("Deep Work")), uuid4(Title("Atomic Habits")),
     ExternalId(Title("nonexistent"))}

ChunkIdInputs == {0, 7, 99}

\* what lies outside the store when retrieve_chunks runs: the extraction
\* yields 200 characters or less (or raises), yields white space only, or
\* yields a text; cache/book_<id>.json is absent (or unreadable, or without
\* chunks) or has chunks; the book was stored with a text or with none
Environments ==
    [extraction : {"short", "blank", "text"},
     book_cache : {"absent", "chunks"},
     content : {"", "text"}]

\* the other producer writes books_cache.json
ExternalWrite ==
    \E file \in {c \in ExternalCaches : c.exists} :
        /\ cache # file
        /\ cache' = file
        /\ last' = [op |-> "external_write"]
        /\ UNCHANGED <<exchange, seeded, books, chunks, dimension, model, indexVars,
                       threadVars, ingested, encodings>>

GetAllChunks ==
    /\ last' = [op |-> "get_all_chunks", value |-> get_all_chunks(chunks)]
    /\ UNCHANGED <<exchange, dbVars, dimension, model, indexVars, threadVars, ingested,
                   encodings>>

GetChunk ==
    \E chunk_id \in ChunkIdInputs :
        /\ last' = [op |-> "get_chunk", chunk_id |-> chunk_id,
                    value |-> get_chunk(chunks, chunk_id)]
        /\ UNCHANGED <<exchange, dbVars, dimension, model, indexVars, threadVars,
                       ingested, encodings>>

GetChunksByBook ==
    \E book_title \in Filters \ {NoTitle} :
        /\ last' = [op |-> "get_chunks_by_book", book_title |-> book_title,
                    value |-> get_chunks_by_book(chunks, book_title)]
        /\ UNCHANGED <<exchange, dbVars, dimension, model, indexVars, threadVars,
                       ingested, encodings>>

GetChunksByBookId ==
    \E book_id \in BookIdInputs \ {NoBookId} :
        \E after \in {get_chunks_by_book_id(book_db, cache, book_id)} :
           /\ Fits(after.chunks)
           /\ books' = after.books
           /\ chunks' = after.chunks
           /\ ingested' = ingested + (Len(after.chunks) - Len(chunks))
           /\ last' = [op |-> "get_chunks_by_book_id", book_id |-> book_id,
                       value |-> after.value]
           /\ UNCHANGED <<exchange, seeded, cache, dimension, model, indexVars,
                          threadVars, encodings>>

\* the environments that make a difference to the call: one, when the call
\* returns before it comes to the extraction
EnvironmentsOf(book_id) ==
    IF book_id = NoBookId
    THEN {[extraction |-> "short", book_cache |-> "absent", content |-> ""]}
    ELSE Environments

Retrieve ==
    \E query \in Queries, book \in {NoTitle, Title("Meditations")},
       book_id \in BookIdInputs :
      \E env \in EnvironmentsOf(book_id) :
        \E after \in {retrieve_chunks(book_db, cache, query, book, book_id, env)} :
           /\ Fits(after.chunks)
           /\ books' = after.books
           /\ chunks' = after.chunks
           /\ cache' = after.cache
           /\ ingested' = ingested + (Len(after.chunks) - Len(chunks))
           /\ last' = [op |-> "retrieve_chunks", query |-> query, book |-> book,
                       book_id |-> book_id,
                       held |-> get_chunks_by_book_id_scan(book_db, cache, book_id).value,
                       value |-> after.value, steps |-> after.steps,
                       searches |-> after.searches,
                       added |-> Len(after.chunks) - Len(chunks)]
           /\ UNCHANGED <<exchange, seeded, dimension, model, indexVars, threadVars,
                          encodings>>

NextLookup ==
    \/ AddChunk
    \/ ExternalWrite
    \/ GetAllChunks
    \/ GetChunk
    \/ GetChunksByBook
    \/ GetChunksByBookId

SpecLookup == Init /\ [][NextLookup]_vars

NextRetrieve ==
    \/ AddBook
    \/ ExternalWrite
    \/ Retrieve

SpecRetrieve == Init /\ [][NextRetrieve]_vars

-----------------------------------------------------------------------------
(* Properties *)

\* the chunk ids of the store are pairwise different
UniqueIds ==
    \A i, j \in 1 .. Len(chunks) : i # j => chunks[i].id # chunks[j].id

\* the text of the chunk that get_chunk finds for the id, as a sequence
TextOfId(chunk_id) ==
    LET c == get_chunk(chunks, chunk_id)
    IN IF c = <<>> THEN <<>> ELSE <<c[1].text>>

\* the number of vectors a search with the filter has to choose from
Available(filter_book) ==
    IF filter_book # NoTitle /\ filter_book \in DOMAIN book_to_indices
    THEN Len(book_to_indices[filter_book])
    ELSE Len(index)

Searched == last.op = "search"

\* the search took the branch of the book filter
Scoped == Searched /\ last.filter_book # NoTitle
                   /\ last.filter_book \in DOMAIN book_to_indices

\* the search was given a filter that is no key of the mapping
FellBack == Searched /\ last.filter_book # NoTitle
                     /\ last.filter_book \notin DOMAIN book_to_indices

\* C1: after every update_index call, following any sequence of add_book,
\* add_chunk and _load_external_books, chunk_ids has as many entries as the
\* embeddings matrix has rows.
C1_LengthsAgreeAfterSync ==
    JustSynced => Len(chunk_ids) = Len(embeddings)

\* C2: in every state, for every position i, embeddings[i] is the embedding
\* of the text of the chunk whose id is chunk_ids[i].
C2_Lockstep ==
    /\ Len(chunk_ids) = Len(embeddings)
    /\ \A i \in 1 .. Len(chunk_ids) :
          TextOfId(chunk_ids[i]) = <<>> \/ embeddings[i] = Encode(TextOfId(chunk_ids[i])[1])

\* C3: every (chunk_id, distance) pair a search returns comes from an indexed
\* vector at a valid position: some position of the index holds a vector at
\* that distance of the query and chunk_ids holds that id there.
C3_ResultsAreIndexed ==
    (Searched /\ last.ok) =>
        \A j \in 1 .. Len(last.results) :
            \E p \in 1 .. Len(index) :
                /\ p <= Len(chunk_ids)
                /\ chunk_ids[p] = last.results[j][1]
                /\ L2(index[p], Encode(last.query)) = last.results[j][2]

\* C4: a search, with or without a book filter, returns exactly
\* min(k, number of vectors in the searched scope) results (stated for the
\* searches that return; the claim adds that none raises).
C4_KClamped ==
    (Searched /\ last.ok) =>
        Len(last.results) = Min(last.k, Available(last.filter_book))

\* C5: a search with a filter that is a key of the book-to-positions map
\* returns at most k results, and every chunk id it returns resolves through
\* get_chunk to a chunk whose title is the filter.
C5_FilterCorrect ==
    (Scoped /\ last.ok) =>
        /\ Len(last.results) <= last.k
        /\ \A j \in 1 .. Len(last.results) :
              LET c == get_chunk(chunks, last.results[j][1])
              IN c # <<>> /\ c[1].title = last.filter_book

\* C6: a search with a filter that is no key of the book-to-positions map
\* does not fail, and returns what the search without a filter returns for
\* the same query and k.
C6_FallbackIsGlobal ==
    FellBack =>
        /\ last.ok
        /\ last.results = search(embedding_store, last.query, last.k, NoTitle).results

\* C7: after update_index every chunk of the store has its row in the index,
\* and the call encoded as many chunks as were ingested since the previous
\* sync.
C7_SyncEmbedsPending ==
    JustSynced =>
        /\ Len(embeddings) = Len(chunks)
        /\ Len(index) = Len(chunks)
        /\ last.encoded = last.pending

\* C8: an update_index call that directly follows another run of
\* update_index, with no ingest in between, encodes nothing and leaves
\* chunk_ids, embeddings, the index and the book-to-positions map as they were.
C8_SecondSyncDoesNothing ==
    (last.op = "update_index" /\ last.repeated) =>
        (last.encoded = 0 /\ ~last.changed)

\* the second of two update_index calls in a row has returned, and the first
\* one had encoded chunks
C8_Witness ==
    last.op = "update_index" /\ last.repeated /\ last.first_encoded > 0

\* C9: no two distinct chunks of the store have the same id.
C9_UniqueIds ==
    \A i, j \in 1 .. Len(chunks) :
        chunks[i].id = chunks[j].id => chunks[i] = chunks[j]

\* the thread is between acquiring and releasing index_lock
InUpdate(t) == pc[t] \in {"diff", "encode", "install"}

\* C10: concurrent update_index calls do not interleave.  At most one thread
\* is between acquiring and releasing the lock; the arrays a call found when
\* it compared the ids are the arrays it appends to; no position of the store
\* is encoded twice; and the chunk_ids and embeddings a call is about to
\* install are those of update_index run alone on what it found.
C10_UpdatesSerialised ==
    /\ \A t, u \in Threads : (t # u /\ InUpdate(t)) => ~InUpdate(u)
    /\ \A t \in Threads :
          pc[t] \in {"encode", "install"} => embedding_store = local[t].found
    /\ \A p \in DOMAIN encodings : encodings[p] <= 1
    /\ \A t \in Threads :
          pc[t] = "install" =>
              LET alone == update_index(embedding_store,
                               SubSeq(chunks, 1, Len(local[t].new_chunk_ids)))
              IN /\ alone.chunk_ids = local[t].new_chunk_ids
                 /\ alone.embeddings = embeddings \o local[t].new_embeddings

\* one call is about to install new embeddings while another call waits for
\* the lock
C10_Witness ==
    \E t, u \in Threads :
        /\ t # u
        /\ pc[t] = "install"
        /\ local[t].new_embeddings # <<>>
        /\ pc[u] = "waiting"

\* C11: a search that runs while another thread runs update_index reads one
\* consistent snapshot.  While the search reads, no thread has written some of
\* index, chunk_ids, embeddings and the mapping and not yet all of them, and
\* the store is the one the search found when it took the lock; the result it
\* returns is the result of search on that one store.
C11_SearchReadsSnapshot ==
    \A t \in Searchers :
        /\ pc[t] \in {"search_scan", "search_map"} =>
               /\ embedding_store = local[t].seen
               /\ \A u \in Updaters : ~MidInstall(u)
        /\ pc[t] = "search_done" =>
               local[t].result = search(local[t].seen, local[t].query,
                                        local[t].k, local[t].filter_book)

\* a search was called while update_index had written only part of the store,
\* and it has returned results
C11_Witness ==
    \E t \in Searchers :
        /\ pc[t] = "search_done"
        /\ local[t].during_install
        /\ local[t].result.ok
        /\ local[t].result.results # <<>>

\* C12: the positions of an index are stable: every step, update_index
\* included, leaves chunk_ids[i] and embeddings[i] as they were at every
\* position that existed before the step; positions are only appended.
C12_PositionsStable ==
    [][/\ Len(chunk_ids') >= Len(chunk_ids)
       /\ \A i \in 1 .. Len(chunk_ids) : chunk_ids'[i] = chunk_ids[i]
       /\ Len(embeddings') >= Len(embeddings)
       /\ \A i \in 1 .. Len(embeddings) : embeddings'[i] = embeddings[i]]_vars

\* update_index has appended rows to an index that already had rows
C12_Witness ==
    /\ last.op \in {"update_index", "process_book"}
    /\ last.encoded > 0
    /\ Len(embeddings) > last.encoded

\* C13: the results of a search, with or without a book filter, are in the
\* order of their distances: no entry has a smaller distance than the entry
\* before it.
C13_ResultsOrdered ==
    (Searched /\ last.ok) =>
        \A j \in 1 .. Len(last.results) - 1 :
            last.results[j][2] <= last.results[j + 1][2]

\* a search returned two or more entries, all of them indexed vectors, at
\* different distances
C13_Witness ==
    /\ Searched
    /\ last.ok
    /\ Len(last.results) >= 2
    /\ last.results[1][2] < last.results[Len(last.results)][2]
    /\ last.k <= Available(last.filter_book)

\* C14: a search, with or without a book filter, against an index that holds
\* no vector returns an empty result and raises nothing.
C14_EmptyIndexSearchSucceeds ==
    (Searched /\ Len(index) = 0) => (last.ok /\ last.results = <<>>)

\* the store holds the chunk: its id is in chunk_ids, at a position where
\* embeddings has the vector of its text
Holds(c) ==
    \E p \in 1 .. Len(chunk_ids) :
        /\ chunk_ids[p] = c.id
        /\ p <= Len(embeddings)
        /\ embeddings[p] = Encode(c.text)

\* C15: an EmbeddingStore built over an empty chunk store has no vectors and
\* the default dimension; an update_index that follows one or more add_chunk
\* succeeds and leaves every chunk of the store in chunk_ids and embeddings,
\* and from then on a search returns a result that is not empty.
C15_BuiltEmptyThenIngest ==
    /\ dimension = default_dimension
    /\ last.op = "init" => (index = <<>> /\ embeddings = <<>> /\ chunk_ids = <<>>)
    /\ (last.op = "update_index" /\ last.pending > 0) =>
          (last.ok /\ index # <<>> /\ \A i \in 1 .. Len(chunks) : Holds(chunks[i]))
    /\ (Searched /\ index # <<>>) => (last.ok /\ last.results # <<>>)

\* a search of the store that was built empty, after an add_chunk and an
\* update_index have filled its index
C15_Witness ==
    Searched /\ index # <<>> /\ last.results # <<>> /\ Len(chunk_ids) = Len(chunks)

\* C16: for the id that add_chunk returned, get_chunk returns the chunk that
\* was just added, whatever add_book, add_chunk and cache loads came before.
C16_IngestLookupRoundTrip ==
    last.op = "add_chunk" => get_chunk(chunks, last.id) = <<chunks[Len(chunks)]>>

\* C17: when the encoder raises during search, update_index or process_book,
\* the caller gets a failure (an exception, or False from process_book) and
\* never a result that says the call succeeded, an empty list included.
C17_EncoderFailureIsFailure ==
    (last.op \in {"search", "update_index", "process_book"} /\ last.encoder_raised)
        => ~last.ok

\* a search of a filled index was called while the encoder could not be reached
C17_Witness ==
    Searched /\ last.encoder_raised /\ index # <<>> /\ dimension = model.width

\* C18: when the encoder's vectors have another width than the dimension of
\* the index (the default dimension of an index built empty included),
\* update_index fails and leaves chunk_ids, embeddings, the index and the
\* book to positions mapping as they were before the call.
C18_MismatchLeavesStore ==
    (JustSynced /\ last.mismatch) => (~last.ok /\ ~last.changed)

\* update_index had chunks to embed for an index built empty with the
\* default dimension, and the encoder has another width
C18_Witness ==
    /\ last.op = "update_index" /\ last.mismatch /\ last.pending > 0
    /\ dimension = default_dimension /\ model.width # dimension
    /\ index = <<>> /\ chunks # <<>>

\* a request has been answered with 200
Answered == exchange.status_code = 200

\* C19: every POST /chat that brings no chunks of its own, the request with
\* only a query included, has called retrieve_chunks exactly once and
\* generate_response exactly once when it answers with status 200.
C19_RetrievesOnceGeneratesOnce ==
    (Answered /\ Absent(exchange.request.chunks)) =>
        (Len(exchange.retrieve_chunks) = 1 /\ Len(exchange.generate_response) = 1)

\* C20: a POST /chat that carries a book title has called retrieve_chunks
\* exactly once, with the request's query and the request's book title as
\* the arguments.
C20_RetrievesWithQueryAndBook ==
    (Answered /\ ~Absent(exchange.request.book)) =>
        exchange.retrieve_chunks = <<<<exchange.request.query, exchange.request.book>>>>

C22_InstalledTogether ==
    /\ Len(chunk_ids) = Len(embeddings)
    /\ \A t \in DOMAIN book_to_indices :
          \A j \in 1 .. Len(book_to_indices[t]) :
              book_to_indices[t][j] < Len(embeddings)

\* C23: in every state reached by construction and a sequential series of
\* ingests, update_index calls and searches, every position in every list of
\* the book to positions mapping is a valid row of embeddings and a valid
\* index of chunk_ids.
C23_MapPositionsValid ==
    \A t \in DOMAIN book_to_indices :
        \A j \in 1 .. Len(book_to_indices[t]) :
            /\ 0 <= book_to_indices[t][j]
            /\ book_to_indices[t][j] < Len(embeddings)
            /\ book_to_indices[t][j] < Len(chunk_ids)

\* C24: two add_chunk or add_book calls that run concurrently on the same
\* BookDatabase never assign the same chunk id to two different chunks.
C24_ConcurrentIdsDiffer ==
    \A t, u \in Threads :
        (t # u /\ pc[t] = "append" /\ pc[u] = "append"
              /\ local[t].texts # <<>> /\ local[u].texts # <<>>)
        => local[t].chunk_id # local[u].chunk_id

\* the positions of the index whose chunk, found through chunk_ids and
\* get_chunk, has the title
IndexedWithTitle(title) ==
    {p \in Positions(index) :
        /\ p < Len(chunk_ids)
        /\ LET c == get_chunk(chunks, chunk_ids[p + 1])
           IN c # <<>> /\ c[1].title = title}

\* the ranking of the whole index by distance to the query, restricted to the
\* chunks with the title and cut to k, as (chunk_id, distance) pairs
GlobalRankingOfBook(title, query, k) ==
    LET ps == IndexedWithTitle(title)
        found == IndexFlatL2_search(index, ps, Encode(query), Min(k, Cardinality(ps)))
    IN [j \in 1 .. Len(found) |-> <<chunk_ids[found[j][1] + 1], found[j][2]>>]

\* C25: a search scoped to a book returns what the ranking of the whole index
\* would return if it were restricted to the chunks of that book: the
\* (chunk_id, distance) pairs of all indexed chunks with the title, by
\* ascending distance, cut to k.
C25_ScopedEqualsRestrictedGlobal ==
    Scoped =>
        /\ last.ok
        /\ last.results = GlobalRankingOfBook(last.filter_book, last.query, last.k)

RetrievedChunks == last.op = "retrieve_chunks"

\* C26: retrieve_chunks(query, book, book_id) prefers the exact lookup by
\* book id when a book id is given; with a book title only it runs the
\* semantic search scoped to the title, and with neither the semantic search
\* without a filter.
C26_RetrievalPrecedence ==
    RetrievedChunks =>
        /\ last.book_id # NoBookId =>
              (last.steps # <<>> /\ last.steps[1] = "get_chunks_by_book_id"
                                 /\ last.searches = <<>>)
        /\ (last.book_id = NoBookId /\ last.book # NoTitle) =>
              last.searches = <<<<last.query, last.book>>>>
        /\ (last.book_id = NoBookId /\ last.book = NoTitle) =>
              last.searches = <<<<last.query, NoTitle>>>>

Lookups == {"get_all_chunks", "get_chunk", "get_chunks_by_book", "get_chunks_by_book_id"}

\* C28: get_all_chunks, get_chunk, get_chunks_by_book and
\* get_chunks_by_book_id only read the database: a call leaves the books and
\* the list of chunks as they were, also when it finds nothing.
C28_LookupsOnlyRead ==
    [][last'.op \in Lookups => (books' = books /\ chunks' = chunks)]_vars

FallbackOrder ==
    <<"get_chunks_by_book_id", "extract_from_google_books", "_load_external_books",
      "book cache file", "dynamic chunks">>

Rank(step) == CHOOSE i \in 1 .. Len(FallbackOrder) : FallbackOrder[i] = step

\* C30: retrieve_chunks with a book id the store has chunks for returns
\* exactly these chunks, in the order of the store and each with score 1.0,
\* starts no extraction and adds no chunk; the extraction, the reload of the
\* cache, the cache file of the book and the dynamic chunking are attempted
\* only when the store has no chunk for the book id, and in this order.
C30_StoredChunksFirst ==
    (RetrievedChunks /\ last.book_id # NoBookId) =>
        /\ last.held # <<>> =>
              /\ last.value = Scored(last.held)
              /\ last.steps = <<"get_chunks_by_book_id">>
              /\ last.added = 0
        /\ Len(last.steps) > 1 => last.held = <<>>
        /\ last.steps[1] = "get_chunks_by_book_id"
        /\ \A i \in 1 .. Len(last.steps) - 1 :
              Rank(last.steps[i]) < Rank(last.steps[i + 1])

C30_Witness ==
    /\ RetrievedChunks
    /\ Len(last.held) > 1
    /\ last.value = Scored(last.held)

-----------------------------------------------------------------------------
(* add_book over contents of every length *)

\* the longest content uploaded, in words
MaxWords == 600

Uploads == [doc : {"upload"}, words : 0 .. MaxWords]

\* one upload to the database as it was built
AddBookOfWords ==
    /\ last.op = "init"
    /\ \E title \in BookTitles, content \in Uploads :
        \E after \in {add_book(book_db, title, content)} :
           /\ chunks' = after.chunks
           /\ books' = after.books
           /\ cache' = save_external_books(after)
           /\ ingested' = ingested + (Len(after.chunks) - Len(chunks))
           /\ last' = [op |-> "add_book", content |-> content, first |-> Len(chunks)]
           /\ UNCHANGED <<exchange, seeded, dimension, model, indexVars, threadVars, encodings>>

NextChunking == AddBookOfWords

SpecChunking == Init /\ [][NextChunking]_vars

\* the chunks the last add_book appended
NewChunks == SubSeq(chunks, last.first + 1, Len(chunks))

WordsOf(c) == c.text.hi - c.text.lo

\* C27: add_book cuts the content into ordered chunks of at most 300 words;
\* every word of the content is in a chunk, in the original order; two
\* consecutive chunks overlap by 50 words, the later one starting with the
\* last 50 words of the earlier one; the new chunks have consecutive ids.
C27_ChunksOverlapByFifty ==
    last.op = "add_book" =>
        LET new == NewChunks
            n == last.content.words
        IN /\ \A j \in 1 .. Len(new) : WordsOf(new[j]) \in 1 .. chunk_size
           /\ n = 0 => new = <<>>
           /\ n > 0 => (new # <<>> /\ new[1].text.lo = 0 /\ new[Len(new)].text.hi = n)
           /\ \A j \in 1 .. Len(new) - 1 :
                 /\ new[j].text.lo < new[j + 1].text.lo
                 /\ new[j + 1].text.lo <= new[j].text.hi
                 /\ new[j + 1].text.lo = new[j].text.hi - overlap
                 /\ WordsOf(new[j + 1]) >= overlap
                 /\ new[j + 1].id = new[j].id + 1

-----------------------------------------------------------------------------
(* update_index run by concurrent threads, with an encoder that can fail *)

\* what the thread was to embed, with the encodings counted so far
Failed(t) ==
    [op |-> "update_index", ok |-> FALSE, encoder_raised |-> TRUE, thread |-> t,
     to_add |-> local[t].positions, encodings |-> encodings]

\* self.model.encode raises and the exception leaves a `with` block that
\* keeps the lock
EncodeRaises_keeps_lock(t) ==
    /\ pc[t] = "encode"
    /\ ~model.up
    /\ pc' = [pc EXCEPT ![t] = "idle"]
    /\ local' = [local EXCEPT ![t] = NoLocals]
    /\ last' = Failed(t)
    /\ UNCHANGED <<exchange, dbVars, dimension, model, indexVars, lock, ingested, encodings>>

\* self.model.encode(new_texts) raises: the exception leaves the `with`
\* block, which releases the lock, before anything was assigned
EncodeRaises(t) ==
    /\ pc[t] = "encode"
    /\ ~model.up
    /\ lock' = "free"
    /\ pc' = [pc EXCEPT ![t] = "idle"]
    /\ local' = [local EXCEPT ![t] = NoLocals]
    /\ last' = Failed(t)
    /\ UNCHANGED <<exchange, dbVars, dimension, model, indexVars, ingested, encodings>>

NextRetry ==
    \/ AddChunk
    \/ EncoderFails
    \/ EncoderRecovers
    \/ \E t \in Threads : Call(t)
    \/ \E t \in Threads : Acquire(t)
    \/ \E t \in Threads : Diff(t)
    \/ \E t \in Threads : model.up /\ EncodeStep(t)
    \/ \E t \in Threads : EncodeRaises(t)
    \/ \E t \in Threads : Install(t)

SpecRetry == Init /\ [][NextRetry]_vars

EncoderRaised == last.op = "update_index" /\ last.encoder_raised

\* C29: when the encoder raises inside update_index, chunk_ids, embeddings,
\* the index and the mapping are as before the call and the lock is free
\* again; the lock is held only by a thread that is inside update_index,
\* whichever way the earlier calls ended, so that a later call gets it; the
\* chunks the failed call was to embed stay pending until a later call has
\* handed them to the encoder.
C29_FailedUpdateReleases ==
    /\ [][\A t \in Threads :
            (pc[t] = "encode" /\ pc'[t] = "idle") =>
                /\ indexVars' = indexVars
                /\ lock' = "free"
                /\ local[t].positions \subseteq PositionsToAdd(embedding_store', chunks')
                /\ local[t].positions # {}]_vars
    /\ [][\A t \in Threads :
            (InUpdate(t) /\ pc'[t] = "idle") => lock' = "free"]_vars
    /\ [](\A t \in Threads : lock = t => InUpdate(t))
    /\ []((\A t \in Threads : ~InUpdate(t)) => lock = "free")
    /\ [](EncoderRaised =>
            \A p \in last.to_add :
                \/ p \in PositionsToAdd(embedding_store, chunks)
                \/ Count(encodings, p) > Count(last.encodings, p))

C29_Witness ==
    /\ EncoderRaised
    /\ lock = "free"
    /\ \A t \in Threads : pc[t] = "idle"
    /\ last.to_add # {}
    /\ \A p \in last.to_add :
          /\ p \notin PositionsToAdd(embedding_store, chunks)
          /\ Count(encodings, p) > Count(last.encodings, p)

====
